---------------------------- MODULE Spec2Model ----------------------------
(***************************************************************************)
(* A model of the OKX account-balance client: the request signer, the      *)
(* header assembly, get_account_balance, format_balance_response and the   *)
(* main functions of okx_balance_secure.py and okx_account_balance.py,     *)
(* and the signer harness of test_signature.py.                            *)
(*                                                                         *)
(* Python strings are sequences of symbols.  A symbol is one character, or *)
(* one literal of the program that is never taken apart (a path, a host).  *)
(* An Optional[str] is <<>> for None and <<s>> for the string s.           *)
(***************************************************************************)
EXTENDS Integers, Sequences, FiniteSets, TLC

VARIABLES
    variant,    \* "secure" (okx_balance_secure.py) or "plain" (okx_account_balance.py)
    env,        \* os.environ: a function from variable names to strings
    pc,         \* position in main / get_account_balance
    creds,      \* main's locals api_key, secret_key, passphrase, is_sandbox
    client,     \* the OKXAPIClient object (<<>> before construction)
    now,        \* the wall clock, microseconds within the current second
    call,       \* the locals of the get_account_balance call in progress
    response,   \* the value the last get_account_balance returned
    raised,     \* TRUE when an exception escaped get_account_balance
    nCalls,     \* get_account_balance invocations begun
    sent,       \* every requests.get performed, with the call's locals
    signed,     \* every signer invocation in order: inputs, pre-hash, result
    printed     \* what format_balance_response printed, in order

vars == <<variant, env, pc, creds, client, now, call, response, raised,
          nCalls, sent, signed, printed>>

(***************************************************************************)
(* Bounds of the model.                                                    *)
(***************************************************************************)
MaxSigned == 2      \* signer invocations recorded by the signer harness
MaxClock == 1500    \* the clock stops advancing here (microseconds)
TickUs == 500       \* one clock step (microseconds)
MaxAccounts == 1    \* accounts in a response's data
MaxDetails == 2     \* details in an account

(***************************************************************************)
(* Strings.                                                                *)
(***************************************************************************)
None == <<>>
Some(s) == <<s>>

\* Python truthiness of an Optional[str]: None and '' are falsy.
Truthy(o) == o # None /\ o[1] # <<>>

LowerChars == <<"g", "e", "t", "p", "o", "s", "b", "c", "h", "r", "u">>
UpperChars == <<"G", "E", "T", "P", "O", "S", "B", "C", "H", "R", "U">>

\* str.upper() on one character.
UpperChar(c) ==
    IF \E i \in DOMAIN LowerChars : LowerChars[i] = c
    THEN UpperChars[CHOOSE i \in DOMAIN LowerChars : LowerChars[i] = c]
    ELSE c

\* str.upper()
Upper(s) == [i \in DOMAIN s |-> UpperChar(s[i])]

\* str.lower() on one character.
LowerChar(c) ==
    IF \E i \in DOMAIN UpperChars : UpperChars[i] = c
    THEN LowerChars[CHOOSE i \in DOMAIN UpperChars : UpperChars[i] = c]
    ELSE c

\* str.lower()
Lower(s) == [i \in DOMAIN s |-> LowerChar(s[i])]

RECURSIVE LStrip(_)
LStrip(s) == IF s # <<>> /\ Head(s) = " " THEN LStrip(Tail(s)) ELSE s

RECURSIVE RStrip(_)
RStrip(s) ==
    IF s # <<>> /\ s[Len(s)] = " " THEN RStrip(SubSeq(s, 1, Len(s) - 1)) ELSE s

\* str.strip()
Strip(s) == RStrip(LStrip(s))

\* str.encode('utf-8') / bytes.decode('utf-8'): injective, tagged so that text
\* and bytes are different values.
Utf8Encode(s) == [bytes |-> s]
Utf8Decode(b) == b.bytes

(***************************************************************************)
(* The request signer.                                                     *)
(***************************************************************************)
\* hmac.new(key, msg, hashlib.sha256).digest(): taken as injective in (key, msg).
HmacSha256(key, msg) == [alg |-> "HMAC-SHA256", key |-> key, msg |-> msg]

\* base64.b64encode: injective on the digest.
B64Encode(digest) == Utf8Encode(<<digest>>)

\* The method concatenated as given.
PreHashNoUpper(timestamp, method, request_path, body) ==
    timestamp \o method \o request_path \o body

\* The body left out of the pre-hash.
PreHashNoBody(timestamp, method, request_path, body) ==
    timestamp \o Upper(method) \o request_path

\* prehash = timestamp + method.upper() + request_path + body
PreHash(timestamp, method, request_path, body) ==
    timestamp \o Upper(method) \o request_path \o body

\* The signature of a pre-hash string under a secret.
Sign(secret_key, prehash) ==
    Utf8Decode(B64Encode(HmacSha256(Utf8Encode(secret_key), Utf8Encode(prehash))))

\* A signer that keeps state: it overwrites the key with the last pre-hash.
_generate_signature_stateful(self, timestamp, method, request_path, body) ==
    LET prehash == PreHash(timestamp, method, request_path, body)
    IN  [ret |-> Sign(self.secret_key, prehash),
         prehash |-> prehash,
         self |-> [self EXCEPT !.secret_key = prehash]]

\* OKXAPIClient._generate_signature: the value returned, the pre-hash local, and
\* the object afterwards (the method assigns no attribute).
_generate_signature(self, timestamp, method, request_path, body) ==
    LET prehash == PreHash(timestamp, method, request_path, body)
    IN  [ret |-> Sign(self.secret_key, prehash),
         prehash |-> prehash,
         self |-> self]

\* test_signature.generate_signature: the same computation with the secret as
\* a parameter.
generate_signature(timestamp, method, request_path, body, secret_key) ==
    LET prehash == PreHash(timestamp, method, request_path, body)
    IN  [ret |-> Sign(secret_key, prehash), prehash |-> prehash]

\* A record of one signer invocation.
SignedCall(secret_key, timestamp, method, request_path, body, r) ==
    [secret |-> secret_key, timestamp |-> timestamp, method |-> method,
     path |-> request_path, body |-> body, prehash |-> r.prehash, sig |-> r.ret]

(***************************************************************************)
(* The client.                                                             *)
(***************************************************************************)
BaseUrl == <<"https://www.okx.com">>

\* OKXAPIClient.__init__: both branches of is_sandbox set the same URL.
NewClient(api_key, secret_key, passphrase, is_sandbox) ==
    [api_key |-> api_key, secret_key |-> secret_key, passphrase |-> passphrase,
     base_url |-> IF is_sandbox THEN BaseUrl ELSE BaseUrl]

(***************************************************************************)
(* The timestamp.                                                          *)
(***************************************************************************)
DigitChars == <<"0", "1", "2", "3", "4", "5", "6", "7", "8", "9">>

\* datetime.strftime('%Y-%m-%dT%H:%M:%S.%f') at t microseconds into the
\* second: the date and time down to the second, then six digits.
Strftime(t) ==
    <<"2020-12-08T09:08:57.">> \o
    [i \in 1..6 |-> DigitChars[((t \div (10 ^ (6 - i))) % 10) + 1]]

\* A timestamp taken once when the module is loaded, not when it is asked for.
_get_timestamp_stale(clock) ==
    SubSeq(Strftime(0), 1, Len(Strftime(0)) - 3) \o <<"Z">>

\* OKXAPIClient._get_timestamp: strftime(...)[:-3] + 'Z' of the clock's value.
_get_timestamp(clock) ==
    SubSeq(Strftime(clock), 1, Len(Strftime(clock)) - 3) \o <<"Z">>

(***************************************************************************)
(* Header assembly.                                                        *)
(***************************************************************************)
\* Key and passphrase in each other's header.
_get_headers_swapped(self, timestamp, method, request_path, body) ==
    LET r == _generate_signature(self, timestamp, method, request_path, body)
    IN  [ret |-> ("OK-ACCESS-KEY" :> self.passphrase) @@
                 ("OK-ACCESS-SIGN" :> r.ret) @@
                 ("OK-ACCESS-TIMESTAMP" :> timestamp) @@
                 ("OK-ACCESS-PASSPHRASE" :> self.api_key) @@
                 ("Content-Type" :> <<"application/json">>),
         sig |-> r,
         self |-> r.self]

\* OKXAPIClient._get_headers: the mapping returned, the signer's result it
\* used, and the object afterwards.
_get_headers(self, timestamp, method, request_path, body) ==
    LET r == _generate_signature(self, timestamp, method, request_path, body)
    IN  [ret |-> ("OK-ACCESS-KEY" :> self.api_key) @@
                 ("OK-ACCESS-SIGN" :> r.ret) @@
                 ("OK-ACCESS-TIMESTAMP" :> timestamp) @@
                 ("OK-ACCESS-PASSPHRASE" :> self.passphrase) @@
                 ("Content-Type" :> <<"application/json">>),
         sig |-> r,
         self |-> r.self]

(***************************************************************************)
(* get_account_balance.                                                    *)
(***************************************************************************)
BalancePath == <<"/api/v5/account/balance">>
GET == <<"G", "E", "T">>

\* A path that leaves the query string out (the currency sent some other way).
RequestPathNoQuery(ccy) == BalancePath

\* request_path = '/api/v5/account/balance' (+ f'?ccy={ccy}' if ccy)
RequestPath(ccy) ==
    IF Truthy(ccy) THEN BalancePath \o <<"?ccy=">> \o ccy[1] ELSE BalancePath

\* What the network and the server can do with one GET.
StatusCodes == {200, 304, 404}
ApiError == [code |-> <<"1">>, msg |-> <<"Invalid Sign">>]
ApiSuccess ==
    [code |-> <<"0">>, msg |-> <<>>,
     data |-> <<[details |-> <<[ccy |-> <<"BTC">>, cashBal |-> <<"0">>],
                                [ccy |-> <<"ETH">>, cashBal |-> <<"2">>]>>]>>]
WireBodies == {[json |-> FALSE], [json |-> TRUE, value |-> ApiError],
               [json |-> TRUE, value |-> ApiSuccess]}
Outcomes ==
    {[kind |-> "connection_error"], [kind |-> "timeout"]} \cup
    [kind : {"response"}, status : StatusCodes, body : WireBodies]

\* Response.raise_for_status: HTTPError for a 4xx or 5xx status, else nothing.
RaiseForStatus(status) == 400 <= status /\ status < 600

ErrorResult(text) == [error |-> text]

\* A try block that sends the request again after a failure.
GetResultRetry(o) ==
    IF o.kind # "response"
    THEN [raised |-> FALSE, gets |-> 2,
          ret |-> <<ErrorResult(<<"request failed: ", o.kind>>)>>]
    ELSE IF RaiseForStatus(o.status)
    THEN [raised |-> FALSE, gets |-> 2,
          ret |-> <<ErrorResult(<<"request failed: ", "http_error">>)>>]
    ELSE IF ~o.body.json
    THEN [raised |-> FALSE, gets |-> 1,
          ret |-> <<ErrorResult(<<"JSON decode failed">>)>>]
    ELSE [raised |-> FALSE, gets |-> 1, ret |-> <<o.body.value>>]

\* The try block of get_account_balance on one outcome of requests.get: the
\* value returned, whether an exception escapes (none does: RequestException
\* and JSONDecodeError are both caught) and how many GETs were made.
GetResult(o) ==
    IF o.kind # "response"
    THEN [raised |-> FALSE, gets |-> 1,
          ret |-> <<ErrorResult(<<"request failed: ", o.kind>>)>>]
    ELSE IF RaiseForStatus(o.status)
    THEN [raised |-> FALSE, gets |-> 1,
          ret |-> <<ErrorResult(<<"request failed: ", "http_error">>)>>]
    ELSE IF ~o.body.json
    THEN [raised |-> FALSE, gets |-> 1,
          ret |-> <<ErrorResult(<<"JSON decode failed">>)>>]
    ELSE [raised |-> FALSE, gets |-> 1, ret |-> <<o.body.value>>]

RequestTimeout == 30

\* One requests.get(url, headers=headers, timeout=30) with the locals of the
\* call that made it, the outcome it met and what the call then returned.
SentRecord(c, url, o, r, sendNow) ==
    [ccy |-> c.ccy, request_path |-> c.request_path, timestamp |-> c.timestamp[1],
     headers |-> c.headers[1], url |-> url, method |-> GET,
     timeout |-> RequestTimeout, startNow |-> c.startNow, readNow |-> c.readNow,
     sendNow |-> sendNow, reads |-> c.reads, outcome |-> o, result |-> r.ret,
     raised |-> r.raised]
(***************************************************************************)
(* format_balance_response.                                                *)
(***************************************************************************)
\* dict.get(key, default) and dict.get(key)
Get(d, key, default) == IF key \in DOMAIN d THEN d[key] ELSE default
GetOpt(d, key) == IF key \in DOMAIN d THEN Some(d[key]) ELSE None

DigitVal(c) == (CHOOSE i \in DOMAIN DigitChars : DigitChars[i] = c) - 1

\* float() of a string of decimal digits.
RECURSIVE Float(_)
Float(s) ==
    IF s = <<>> THEN 0
    ELSE Float(SubSeq(s, 1, Len(s) - 1)) * 10 + DigitVal(s[Len(s)])

\* The sort key: float(x.get('cashBal', '0'))
CashBal(d) == Float(Get(d, "cashBal", <<"0">>))

\* No filter: every detail is kept.
NonZeroDetailsAll(details) == details

\* [d for d in details if float(d.get('cashBal', '0')) > 0]
NonZeroDetails(details) == SelectSeq(details, LAMBDA d : CashBal(d) > 0)

\* One step of a stable descending sort: x goes after every element whose key
\* is at least its own.
InsertDesc(s, x) ==
    LET k == Cardinality({i \in DOMAIN s : CashBal(s[i]) >= CashBal(x)})
    IN  SubSeq(s, 1, k) \o <<x>> \o SubSeq(s, k + 1, Len(s))

\* sorted(details, key=lambda x: float(x.get('cashBal', '0')), reverse=True)
RECURSIVE SortedDetails(_)
SortedDetails(details) ==
    IF details = <<>> THEN <<>>
    ELSE InsertDesc(SortedDetails(SubSeq(details, 1, Len(details) - 1)),
                    details[Len(details)])

\* The four lines printed for one detail, as one item; acct is the position of
\* the account in data.
Entry(d, acct) ==
    [line |-> "entry", acct |-> acct,
     ccy |-> Get(d, "ccy", <<"N/A">>),
     cashBal |-> Get(d, "cashBal", <<"0">>),
     availBal |-> Get(d, "availBal", <<"0">>),
     frozenBal |-> Get(d, "frozenBal", <<"0">>)]

\* The body of `for account in data`.
FormatAccount(v, account, acct) ==
    LET details == Get(account, "details", <<>>)
        shown == IF v = "secure" THEN SortedDetails(NonZeroDetails(details))
                 ELSE details
    IN  IF details = <<>> THEN <<[line |-> "no_details", acct |-> acct]>>
        ELSE IF shown = <<>> THEN <<[line |-> "all_zero", acct |-> acct]>>
        ELSE [i \in DOMAIN shown |-> Entry(shown[i], acct)]

RECURSIVE FormatAccounts(_, _, _)
FormatAccounts(v, data, n) ==
    IF n = 0 THEN <<>>
    ELSE FormatAccounts(v, data, n - 1) \o FormatAccount(v, data[n], n)

\* A test that takes a response without a code for a success.
IsApiErrorLenient(resp) == "code" \in DOMAIN resp /\ resp["code"] # <<"0">>

\* response.get('code') != '0'
IsApiError(resp) == GetOpt(resp, "code") # Some(<<"0">>)

\* OKXAPIClient.format_balance_response of variant v: the items printed.
format_balance_response(v, resp) ==
    IF "error" \in DOMAIN resp
    THEN <<[line |-> "error", text |-> resp["error"]]>>
    ELSE IF IsApiError(resp)
    THEN IF v = "secure"
         THEN <<[line |-> "api_error", code |-> GetOpt(resp, "code"),
                 msg |-> Get(resp, "msg", <<"unknown error">>)]>>
         ELSE <<[line |-> "api_error",
                 msg |-> Get(resp, "msg", <<"unknown error">>)]>>
    ELSE LET data == Get(resp, "data", <<>>)
         IN  IF data = <<>> THEN <<[line |-> "empty"]>>
             ELSE <<[line |-> "title"]>> \o FormatAccounts(v, data, Len(data))

(***************************************************************************)
(* main of both variants, step by step.                                    *)
(***************************************************************************)
EnvNames == {"OKX_API_KEY", "OKX_SECRET_KEY", "OKX_PASSPHRASE", "OKX_SANDBOX"}
NoEnv == [n \in EnvNames |-> None]

\* os.getenv(name) and os.getenv(name, default)
Getenv(name) == env[name]
GetenvDefault(name, default) == IF env[name] = None THEN default ELSE env[name][1]

\* A check for None only, which lets an empty string pass.
All3NotNone(c) == c.api_key # None /\ c.secret_key # None /\ c.passphrase # None

\* all([api_key, secret_key, passphrase])
All3(c) == Truthy(c.api_key) /\ Truthy(c.secret_key) /\ Truthy(c.passphrase)

\* "YOUR_" in s
HasPlaceholder(s) == \E i \in DOMAIN s : s[i] = "YOUR_"

\* The start of a get_account_balance(ccy) call: request_path is built.
BeginCall(ccy, return_to) ==
    /\ call' = <<[ccy |-> ccy, request_path |-> RequestPath(ccy),
                  timestamp |-> None, headers |-> None, startNow |-> now,
                  readNow |-> -1, reads |-> 0, return_to |-> return_to]>>
    /\ nCalls' = nCalls + 1
    /\ pc' = "gab_sign"

\* load_credentials(), called by the secure main.
load_credentials ==
    /\ variant = "secure" /\ pc = "start"
    /\ creds' = <<[api_key |-> Getenv("OKX_API_KEY"),
                   secret_key |-> Getenv("OKX_SECRET_KEY"),
                   passphrase |-> Getenv("OKX_PASSPHRASE"),
                   is_sandbox |->
                       Lower(GetenvDefault("OKX_SANDBOX", <<"f", "a", "l", "s", "e">>))
                           = <<"t", "r", "u", "e">>]>>
    /\ pc' = "check"
    /\ UNCHANGED <<variant, env, client, now, call, response, raised, nCalls,
                   sent, signed, printed>>

\* The constants API_KEY, SECRET_KEY, PASSPHRASE of the plain main.
PlainCredentials ==
    /\ variant = "plain" /\ pc = "start"
    /\ creds' = <<[api_key |-> Some(<<"YOUR_", "API_KEY">>),
                   secret_key |-> Some(<<"YOUR_", "SECRET_KEY">>),
                   passphrase |-> Some(<<"YOUR_", "PASSPHRASE">>),
                   is_sandbox |-> FALSE]>>
    /\ pc' = "check"
    /\ UNCHANGED <<variant, env, client, now, call, response, raised, nCalls,
                   sent, signed, printed>>

\* The secure main's check: guidance and return, or the client is built.
CheckCredentials ==
    /\ variant = "secure" /\ pc = "check"
    /\ LET c == creds[1]
       IN  IF ~All3(c)
           THEN /\ printed' = Append(printed, [line |-> "guidance"])
                /\ pc' = "done"
                /\ client' = client
           ELSE /\ client' = <<NewClient(c.api_key[1], c.secret_key[1],
                                         c.passphrase[1], c.is_sandbox)>>
                /\ pc' = "query_all"
                /\ printed' = printed
    /\ UNCHANGED <<variant, env, creds, now, call, response, raised, nCalls,
                   sent, signed>>

\* The plain main's check for placeholders.
PlainCheck ==
    /\ variant = "plain" /\ pc = "check"
    /\ LET c == creds[1]
       IN  IF HasPlaceholder(c.api_key[1]) \/ HasPlaceholder(c.secret_key[1])
                \/ HasPlaceholder(c.passphrase[1])
           THEN /\ printed' = Append(printed, [line |-> "guidance"])
                /\ pc' = "done"
                /\ client' = client
           ELSE /\ client' = <<NewClient(c.api_key[1], c.secret_key[1],
                                         c.passphrase[1], FALSE)>>
                /\ pc' = "query_all"
                /\ printed' = printed
    /\ UNCHANGED <<variant, env, creds, now, call, response, raised, nCalls,
                   sent, signed>>

\* response = client.get_account_balance()
QueryAll ==
    /\ pc = "query_all"
    /\ BeginCall(None, "format_all")
    /\ UNCHANGED <<variant, env, creds, client, now, response, raised, sent,
                   signed, printed>>

\* timestamp = self._get_timestamp(); headers = self._get_headers(...)
GabSign ==
    /\ pc = "gab_sign"
    /\ LET c == call[1]
           timestamp == _get_timestamp(now)
           h == _get_headers(client[1], timestamp, GET, c.request_path, <<>>)
       IN  /\ call' = <<[c EXCEPT !.timestamp = Some(timestamp),
                                  !.headers = Some(h.ret),
                                  !.readNow = now,
                                  !.reads = c.reads + 1]>>
           /\ signed' = Append(signed,
                  SignedCall(creds[1].secret_key[1], timestamp, GET,
                             c.request_path, <<>>, h.sig))
           /\ client' = <<h.self>>
    /\ pc' = "gab_send"
    /\ UNCHANGED <<variant, env, creds, now, response, raised, nCalls, sent,
                   printed>>

\* url = self.base_url + request_path, then the try block.
GabSend ==
    /\ pc = "gab_send"
    /\ \E o \in Outcomes :
         LET c == call[1]
             url == client[1].base_url \o c.request_path
             r == GetResult(o)
         IN  /\ sent' = sent \o [i \in 1..r.gets |-> SentRecord(c, url, o, r, now)]
             /\ response' = r.ret
             /\ raised' = r.raised
             /\ pc' = IF r.raised THEN "crashed" ELSE c.return_to
    /\ call' = <<>>
    /\ UNCHANGED <<variant, env, creds, client, now, nCalls, signed, printed>>

\* client.format_balance_response(response)
FormatAll ==
    /\ pc = "format_all"
    /\ printed' = printed \o format_balance_response(variant, response[1])
    /\ pc' = "second"
    /\ UNCHANGED <<variant, env, creds, client, now, call, response, raised,
                   nCalls, sent, signed>>

StdinLines == {<<>>, <<" ">>, <<" ", "b", "t", "c">>}
BTC == <<"B", "T", "C">>

\* The second query: the secure main asks for a currency and skips the query
\* on an empty answer; the plain main always queries 'BTC'.
SecondQuery ==
    /\ pc = "second"
    /\ \E line \in StdinLines :
         LET target_currency == Upper(Strip(line))
         IN  IF variant = "plain"
             THEN BeginCall(Some(BTC), "format_one")
             ELSE IF target_currency # <<>>
             THEN BeginCall(Some(target_currency), "format_one")
             ELSE /\ pc' = "finish"
                  /\ UNCHANGED <<call, nCalls>>
    /\ UNCHANGED <<variant, env, creds, client, now, response, raised, sent,
                   signed, printed>>

\* client.format_balance_response(specific_response)
FormatOne ==
    /\ pc = "format_one"
    /\ printed' = printed \o format_balance_response(variant, response[1])
    /\ pc' = "finish"
    /\ UNCHANGED <<variant, env, creds, client, now, call, response, raised,
                   nCalls, sent, signed>>

\* The closing prints of main.
Finish ==
    /\ pc = "finish"
    /\ printed' = Append(printed, [line |-> "done"])
    /\ pc' = "done"
    /\ UNCHANGED <<variant, env, creds, client, now, call, response, raised,
                   nCalls, sent, signed>>

\* The wall clock advances while main runs; it is taken never to run backwards.
Tick ==
    /\ pc \notin {"done", "crashed"}
    /\ now + TickUs <= MaxClock
    /\ now' = now + TickUs
    /\ UNCHANGED <<variant, env, pc, creds, client, call, response, raised,
                   nCalls, sent, signed, printed>>

\* What a credential variable can hold: unset, empty, or a value.
EnvValues(value) == {None, Some(<<>>), Some(<<value>>)}
SandboxValues == {None, Some(<<"T", "r", "u", "e">>)}

Init ==
    /\ variant \in {"secure", "plain"}
    /\ env \in [OKX_API_KEY : EnvValues("key"), OKX_SECRET_KEY : EnvValues("secret"),
                OKX_PASSPHRASE : EnvValues("phrase"), OKX_SANDBOX : SandboxValues]
    /\ variant = "plain" => env = NoEnv
    /\ pc = "start"
    /\ creds = <<>>
    /\ client = <<>>
    /\ now = 0
    /\ call = <<>>
    /\ response = <<>>
    /\ raised = FALSE
    /\ nCalls = 0
    /\ sent = <<>>
    /\ signed = <<>>
    /\ printed = <<>>

Next ==
    \/ load_credentials
    \/ PlainCredentials
    \/ CheckCredentials
    \/ PlainCheck
    \/ QueryAll
    \/ GabSign
    \/ GabSend
    \/ FormatAll
    \/ SecondQuery
    \/ FormatOne
    \/ Finish
    \/ Tick

Spec == Init /\ [][Next]_vars

(***************************************************************************)
(* The signer harnesses: test_signature.py calls generate_signature, and a *)
(* caller of OKXAPIClient calls _generate_signature and, in between,       *)
(* get_account_balance, in any order and with any inputs.                  *)
(***************************************************************************)
Secrets == {<<"22582BD0CFF14C41EDBF1AB98506286D">>, <<"YOUR_SECRET_KEY">>}
Timestamps == {_get_timestamp(0), _get_timestamp(1000)}
Methods == {GET, <<"g", "e", "t">>, <<"P", "O", "S", "T">>}
Paths == {RequestPath(None), RequestPath(Some(BTC))}
Bodies == {<<>>, <<"{}">>}
HarnessOutcomes == {[kind |-> "connection_error"]}

\* client._generate_signature(timestamp, method, request_path, body)
ClientSign ==
    /\ pc = "client_harness"
    /\ Len(signed) < MaxSigned
    /\ \E timestamp \in Timestamps, method \in Methods, request_path \in Paths,
          body \in Bodies :
         LET r == _generate_signature(client[1], timestamp, method, request_path, body)
         IN  /\ signed' = Append(signed,
                    SignedCall(creds[1].secret_key[1], timestamp, method,
                               request_path, body, r))
             /\ client' = <<r.self>>
    /\ UNCHANGED <<variant, env, pc, creds, now, call, response, raised, nCalls,
                   sent, printed>>

\* client.get_account_balance(ccy), the whole call.
get_account_balance ==
    /\ pc = "client_harness"
    /\ Len(signed) < MaxSigned
    /\ \E ccy \in {None, Some(<<>>), Some(BTC)}, o \in HarnessOutcomes :
         LET request_path == RequestPath(ccy)
             timestamp == _get_timestamp(now)
             h == _get_headers(client[1], timestamp, GET, request_path, <<>>)
             url == client[1].base_url \o request_path
             r == GetResult(o)
             c == [ccy |-> ccy, request_path |-> request_path,
                   timestamp |-> Some(timestamp), headers |-> Some(h.ret),
                   startNow |-> now, readNow |-> now, reads |-> 1]
         IN  /\ signed' = Append(signed,
                    SignedCall(creds[1].secret_key[1], timestamp, GET,
                               request_path, <<>>, h.sig))
             /\ client' = <<h.self>>
             /\ sent' = sent \o [i \in 1..r.gets |-> SentRecord(c, url, o, r, now)]
             /\ response' = r.ret
             /\ raised' = r.raised
    /\ nCalls' = nCalls + 1
    /\ UNCHANGED <<variant, env, pc, creds, now, call, printed>>

\* generate_signature(timestamp, method, request_path, body, secret_key)
TestSign ==
    /\ pc = "test_harness"
    /\ Len(signed) < MaxSigned
    /\ \E timestamp \in Timestamps, method \in Methods, request_path \in Paths,
          body \in Bodies, secret_key \in Secrets :
         LET r == generate_signature(timestamp, method, request_path, body, secret_key)
         IN  signed' = Append(signed,
                 SignedCall(secret_key, timestamp, method, request_path, body, r))
    /\ UNCHANGED <<variant, env, pc, creds, client, now, call, response, raised,
                   nCalls, sent, printed>>

SignerInit ==
    /\ variant = "secure"
    /\ env = NoEnv
    /\ \/ /\ pc = "client_harness"
          /\ \E secret_key \in Secrets :
               /\ creds = <<[api_key |-> Some(<<"k">>), secret_key |-> Some(secret_key),
                             passphrase |-> Some(<<"p">>), is_sandbox |-> FALSE]>>
               /\ client = <<NewClient(<<"k">>, secret_key, <<"p">>, FALSE)>>
       \/ /\ pc = "test_harness"
          /\ creds = <<>>
          /\ client = <<>>
    /\ now = 0
    /\ call = <<>>
    /\ response = <<>>
    /\ raised = FALSE
    /\ nCalls = 0
    /\ sent = <<>>
    /\ signed = <<>>
    /\ printed = <<>>

SignerNext == ClientSign \/ get_account_balance \/ TestSign

SpecSigner == SignerInit /\ [][SignerNext]_vars

(***************************************************************************)
(* The formatter harness: format_balance_response of either variant on any *)
(* parsed response.                                                        *)
(***************************************************************************)
RECURSIVE SeqsUpTo(_, _)
SeqsUpTo(S, n) ==
    IF n = 0 THEN {<<>>}
    ELSE LET shorter == SeqsUpTo(S, n - 1)
         IN  shorter \cup {Append(q, x) : q \in shorter, x \in S}

\* The empty mapping, and the mappings with at most the key k.
Empty == [k \in {} |-> k]
Optional(k, S) == {Empty} \cup {k :> x : x \in S}

DetailPool ==
    {[ccy |-> <<"BTC">>, cashBal |-> <<"0">>],
     [ccy |-> <<"ETH">>, cashBal |-> <<"2">>],
     [ccy |-> <<"USDT">>, cashBal |-> <<"1", "0">>],
     [ccy |-> <<"DOGE">>]}
AccountPool == Optional("details", SeqsUpTo(DetailPool, MaxDetails))
Responses ==
    {e @@ c @@ m @@ d :
        e \in Optional("error", {<<"request failed: ", "timeout">>}),
        c \in Optional("code", {<<"0">>, <<"1">>}),
        m \in Optional("msg", {<<"Invalid Sign">>}),
        d \in Optional("data", SeqsUpTo(AccountPool, MaxAccounts))}

\* client.format_balance_response(response)
FormatCall ==
    /\ pc = "format"
    /\ printed' = printed \o format_balance_response(variant, response[1])
    /\ pc' = "formatted"
    /\ UNCHANGED <<variant, env, creds, client, now, call, response, raised,
                   nCalls, sent, signed>>

FormatInit ==
    /\ variant \in {"secure", "plain"}
    /\ env = NoEnv
    /\ pc = "format"
    /\ creds = <<>>
    /\ client = <<NewClient(<<"k">>, <<"s">>, <<"p">>, FALSE)>>
    /\ now = 0
    /\ call = <<>>
    /\ response \in {<<r>> : r \in Responses}
    /\ raised = FALSE
    /\ nCalls = 0
    /\ sent = <<>>
    /\ signed = <<>>
    /\ printed = <<>>

FormatNext == FormatCall

SpecFormat == FormatInit /\ [][FormatNext]_vars

(***************************************************************************)
(* Properties of the signer (checked under SpecSigner).                    *)
(***************************************************************************)
SameInputs(a, b) ==
    /\ a.secret = b.secret /\ a.timestamp = b.timestamp /\ a.method = b.method
    /\ a.path = b.path /\ a.body = b.body

\* The number of the four request inputs in which two signer calls differ.
Differences(a, b) ==
    (IF a.timestamp # b.timestamp THEN 1 ELSE 0) + (IF a.method # b.method THEN 1 ELSE 0)
    + (IF a.path # b.path THEN 1 ELSE 0) + (IF a.body # b.body THEN 1 ELSE 0)

\* C1: the signer is deterministic and stateless.  Any two signer calls with
\* the same secret, timestamp, method, path and body returned the same
\* signature, whatever signer calls or balance queries were made around them,
\* and the client still holds the api_key, secret_key, passphrase and base_url
\* it was constructed with.
C1_SignerDeterministicStateless ==
    /\ \A i, j \in DOMAIN signed :
         SameInputs(signed[i], signed[j]) => signed[i].sig = signed[j].sig
    /\ pc = "client_harness" =>
         /\ client[1].api_key = creds[1].api_key[1]
         /\ client[1].secret_key = creds[1].secret_key[1]
         /\ client[1].passphrase = creds[1].passphrase[1]
         /\ client[1].base_url = BaseUrl

\* The same inputs were signed by a balance query and then by a direct call of
\* the signer.
C1_Witness ==
    /\ pc = "client_harness" /\ Len(sent) = 1 /\ Len(signed) = 2
    /\ sent[1].headers["OK-ACCESS-SIGN"] = signed[1].sig
    /\ SameInputs(signed[1], signed[2])

\* C2 as stated: under one secret, two signer calls that differ in exactly one
\* of timestamp, method (its case included), path and body have different
\* signatures.
C2_AnySingleChangeChangesSignature ==
    \A i, j \in DOMAIN signed :
        (signed[i].secret = signed[j].secret /\ Differences(signed[i], signed[j]) = 1)
            => signed[i].sig # signed[j].sig

\* C2 amended: under one secret, two signer calls that differ in exactly one of
\* timestamp, path and body, or only in the method and not merely in its case,
\* have different signatures.
C2_SingleChangeChangesSignature ==
    \A i, j \in DOMAIN signed :
        (/\ signed[i].secret = signed[j].secret
         /\ Differences(signed[i], signed[j]) = 1
         /\ Upper(signed[i].method) = Upper(signed[j].method)
                => signed[i].method = signed[j].method)
            => signed[i].sig # signed[j].sig

\* Two calls under one secret differing only in the body, and so in signature.
C2_Witness ==
    \E i, j \in DOMAIN signed :
        /\ signed[i].secret = signed[j].secret
        /\ signed[i].timestamp = signed[j].timestamp
        /\ signed[i].method = signed[j].method
        /\ signed[i].path = signed[j].path
        /\ signed[i].body # signed[j].body
        /\ signed[i].sig # signed[j].sig

\* C3: the pre-hash string of every signer call is timestamp, then the method in
\* upper case, then path, then body, with nothing in between, so a call with a
\* lowercase or mixed-case method returns the signature of the call with the
\* uppercase method.
C3_MethodNormalized ==
    /\ \A i \in DOMAIN signed :
         signed[i].prehash =
             signed[i].timestamp \o Upper(signed[i].method) \o signed[i].path
                 \o signed[i].body
    /\ \A i, j \in DOMAIN signed :
         (/\ signed[i].secret = signed[j].secret
          /\ signed[i].timestamp = signed[j].timestamp
          /\ signed[i].path = signed[j].path
          /\ signed[i].body = signed[j].body
          /\ Upper(signed[i].method) = signed[j].method)
             => signed[i].sig = signed[j].sig

\* A lowercase method was signed, and so was its uppercase form.
C3_Witness ==
    \E i, j \in DOMAIN signed :
        /\ signed[i].method # Upper(signed[i].method)
        /\ signed[j].method = Upper(signed[i].method)
        /\ signed[i].secret = signed[j].secret
        /\ signed[i].timestamp = signed[j].timestamp
        /\ signed[i].path = signed[j].path
        /\ signed[i].body = signed[j].body

(***************************************************************************)
(* Properties of the balance query and of main (checked under Spec, C9     *)
(* under SpecSigner, whose caller also passes an empty currency).          *)
(***************************************************************************)
\* A failed GET as C4 words it: network error, timeout, non-2xx status, or a
\* body that is not valid JSON.
FailedAsStated(o) ==
    \/ o.kind \in {"connection_error", "timeout"}
    \/ o.kind = "response" /\ (o.status < 200 \/ o.status >= 300 \/ ~o.body.json)

\* A failed GET: network error, timeout, 4xx or 5xx status, or a body that is
\* not valid JSON.
Failed(o) ==
    \/ o.kind \in {"connection_error", "timeout"}
    \/ o.kind = "response" /\ ((400 <= o.status /\ o.status < 600) \/ ~o.body.json)

\* Every call that has returned made exactly one GET; a call in progress none.
OneGetPerCall == Len(sent) = (IF call = <<>> THEN nCalls ELSE nCalls - 1)

\* C4 as stated: every failed GET (non-2xx status included) made the call
\* return a mapping with an error field, no exception reached the caller, and
\* each call made exactly one GET.
C4_EveryFailureReturnsError ==
    /\ \A i \in DOMAIN sent :
         FailedAsStated(sent[i].outcome) =>
             /\ ~sent[i].raised
             /\ sent[i].result # <<>>
             /\ "error" \in DOMAIN sent[i].result[1]
    /\ ~raised
    /\ OneGetPerCall

\* C4 amended: every GET that failed by network error, timeout, 4xx or 5xx
\* status or a body that is not valid JSON made the call return a mapping with
\* an error field; no exception reached the caller; each call made exactly one
\* GET.
C4_FailureReturnsError ==
    /\ \A i \in DOMAIN sent :
         Failed(sent[i].outcome) =>
             /\ ~sent[i].raised
             /\ sent[i].result # <<>>
             /\ "error" \in DOMAIN sent[i].result[1]
    /\ ~raised
    /\ pc # "crashed"
    /\ OneGetPerCall

\* A call met a timeout and returned the error mapping; main went on.
C4_Witness ==
    /\ Len(sent) = 1 /\ nCalls = 1 /\ pc = "format_all"
    /\ sent[1].outcome.kind = "timeout"
    /\ response # <<>> /\ "error" \in DOMAIN response[1]

\* A credential of the run is missing or empty at startup.
MissingAtStartup ==
    IF variant = "secure"
    THEN \E n \in {"OKX_API_KEY", "OKX_SECRET_KEY", "OKX_PASSPHRASE"} :
            env[n] = None \/ env[n] = Some(<<>>)
    ELSE FALSE

\* C5: in a run whose key, secret or passphrase is missing or empty at startup,
\* main prints the guidance and returns: no client is built, no balance query
\* is begun and no request is sent.  A request is sent only in runs where all
\* three are present.
C5_NoRequestWithoutCredentials ==
    /\ MissingAtStartup =>
         /\ sent = <<>> /\ nCalls = 0 /\ client = <<>> /\ signed = <<>>
         /\ pc \in {"start", "check", "done"}
         /\ pc = "done" => printed = <<[line |-> "guidance"]>>
    /\ sent # <<>> => ~MissingAtStartup

\* The passphrase alone is missing; main has returned after the guidance.
C5_Witness ==
    /\ variant = "secure" /\ pc = "done"
    /\ env["OKX_API_KEY"] = Some(<<"key">>)
    /\ env["OKX_SECRET_KEY"] = Some(<<"secret">>)
    /\ env["OKX_PASSPHRASE"] = None
    /\ printed = <<[line |-> "guidance"]>> /\ sent = <<>>

HeaderNames ==
    {"OK-ACCESS-KEY", "OK-ACCESS-SIGN", "OK-ACCESS-TIMESTAMP", "OK-ACCESS-PASSPHRASE",
     "Content-Type"}

\* C8: the headers of every request sent are exactly the five fields; the
\* timestamp header is the timestamp the call generated and the one that
\* starts the signed pre-hash; the sign header is what the signer returned for
\* that timestamp, method, path and body under the client's secret; key and
\* passphrase are the client's.
C8_HeadersConsistent ==
    \A i \in DOMAIN sent :
        LET h == sent[i].headers
        IN  /\ DOMAIN h = HeaderNames
            /\ h["OK-ACCESS-KEY"] = client[1].api_key
            /\ h["OK-ACCESS-PASSPHRASE"] = client[1].passphrase
            /\ h["OK-ACCESS-KEY"] = creds[1].api_key[1]
            /\ h["OK-ACCESS-PASSPHRASE"] = creds[1].passphrase[1]
            /\ h["Content-Type"] = <<"application/json">>
            /\ h["OK-ACCESS-TIMESTAMP"] = sent[i].timestamp
            /\ \E j \in DOMAIN signed :
                 /\ signed[j].sig = h["OK-ACCESS-SIGN"]
                 /\ signed[j].secret = client[1].secret_key
                 /\ signed[j].timestamp = h["OK-ACCESS-TIMESTAMP"]
                 /\ signed[j].method = sent[i].method
                 /\ signed[j].path = sent[i].request_path
                 /\ signed[j].body = <<>>
                 /\ SubSeq(signed[j].prehash, 1, Len(h["OK-ACCESS-TIMESTAMP"]))
                        = h["OK-ACCESS-TIMESTAMP"]

\* Two requests went out, the second for a currency, after the clock moved.
C8_Witness ==
    /\ Len(sent) = 2
    /\ sent[1].headers["OK-ACCESS-SIGN"] # sent[2].headers["OK-ACCESS-SIGN"]
    /\ sent[1].headers["OK-ACCESS-TIMESTAMP"] # sent[2].headers["OK-ACCESS-TIMESTAMP"]

\* C9: for every get_account_balance(ccy), the URL requested is base_url plus
\* the signed path, the signed method is GET and the signed body is empty; the
\* signed path is '/api/v5/account/balance' plus '?ccy=' and the currency when
\* ccy is non-empty, and '/api/v5/account/balance' alone when ccy is None or
\* empty.
C9_SignedPathIsRequestedPath ==
    \A i \in DOMAIN sent :
        \E j \in DOMAIN signed :
            /\ signed[j].sig = sent[i].headers["OK-ACCESS-SIGN"]
            /\ sent[i].url = BaseUrl \o signed[j].path
            /\ signed[j].method = GET
            /\ sent[i].method = GET
            /\ signed[j].body = <<>>
            /\ signed[j].path =
                 IF sent[i].ccy = None \/ sent[i].ccy = Some(<<>>)
                 THEN <<"/api/v5/account/balance">>
                 ELSE <<"/api/v5/account/balance", "?ccy=">> \o sent[i].ccy[1]

\* One query for all currencies with an empty ccy and one for BTC were sent.
C9_Witness ==
    /\ Len(sent) = 2
    /\ sent[1].ccy = Some(<<>>) /\ sent[1].url = BaseUrl \o BalancePath
    /\ sent[2].ccy = Some(BTC)
    /\ sent[2].url = BaseUrl \o BalancePath \o <<"?ccy=", "B", "T", "C">>

\* The timestamp string of a clock value: the first three digits of the
\* microseconds.
MillisecondStamp(t) == SubSeq(Strftime(t), 1, Len(Strftime(t)) - 3) \o <<"Z">>

\* C10: every call read the clock once, after it began and before it sent its
\* request; the timestamp it signed and the timestamp header are that reading;
\* a later call's reading is taken after the earlier call's request, never
\* carried over; and the client holds nothing but its four fields, while no
\* call's locals outlive the call.
C10_TimestampFreshPerCall ==
    /\ \A i \in DOMAIN sent :
         /\ sent[i].reads = 1
         /\ sent[i].startNow <= sent[i].readNow /\ sent[i].readNow <= sent[i].sendNow
         /\ sent[i].timestamp = MillisecondStamp(sent[i].readNow)
         /\ sent[i].headers["OK-ACCESS-TIMESTAMP"] = sent[i].timestamp
         /\ \E j \in DOMAIN signed :
              /\ signed[j].sig = sent[i].headers["OK-ACCESS-SIGN"]
              /\ signed[j].timestamp = sent[i].timestamp
    /\ \A i, j \in DOMAIN sent : i < j => sent[i].sendNow <= sent[j].readNow
    /\ client # <<>> =>
         DOMAIN client[1] = {"api_key", "secret_key", "passphrase", "base_url"}
    /\ pc \in {"second", "finish", "done"} => call = <<>>

\* Two calls in one run, the clock a millisecond on: the timestamps differ.
C10_Witness ==
    /\ Len(sent) = 2
    /\ sent[1].readNow < sent[2].readNow
    /\ sent[1].timestamp # sent[2].timestamp
    /\ sent[2].startNow > sent[1].sendNow

(***************************************************************************)
(* Properties of format_balance_response (checked under SpecFormat).       *)
(***************************************************************************)
\* A success response: no error field, code "0", data not empty.
IsSuccess(resp) ==
    /\ "error" \notin DOMAIN resp
    /\ "code" \in DOMAIN resp /\ resp["code"] = <<"0">>
    /\ "data" \in DOMAIN resp /\ resp["data"] # <<>>

\* The balance entries printed for the account at position acct of data.
EntriesOf(acct) == SelectSeq(printed, LAMBDA x : x.line = "entry" /\ x.acct = acct)

Count(seq, x) == Cardinality({i \in DOMAIN seq : seq[i] = x})

\* The balance of a detail as a number, by its decimal digits.
RECURSIVE Decimal(_)
Decimal(s) ==
    IF s = <<>> THEN 0
    ELSE Decimal(SubSeq(s, 1, Len(s) - 1)) * 10
         + (CHOOSE n \in 0..9 : DigitChars[n + 1] = s[Len(s)])
Balance(d) == IF "cashBal" \in DOMAIN d THEN Decimal(d["cashBal"]) ELSE 0

\* For every account of the response, the entries printed are exactly its
\* details with a balance above zero, largest balance first.
ShowsNonZeroSorted(resp) ==
    \A acct \in DOMAIN resp["data"] :
        LET details == IF "details" \in DOMAIN resp["data"][acct]
                       THEN resp["data"][acct]["details"] ELSE <<>>
            shown == EntriesOf(acct)
        IN  /\ \A d \in DetailPool :
                 Count(shown, Entry(d, acct)) =
                     (IF Balance(d) > 0 THEN Count(details, d) ELSE 0)
            /\ Len(shown) =
                 Cardinality({i \in DOMAIN details : Balance(details[i]) > 0})
            /\ \A k \in 1..(Len(shown) - 1) :
                 Decimal(shown[k].cashBal) >= Decimal(shown[k + 1].cashBal)

NoEntryPrinted == \A i \in DOMAIN printed : printed[i].line # "entry"

\* The line printed surfaces the msg of the response.
SurfacesMsg(resp) ==
    \E i \in DOMAIN printed :
        /\ printed[i].line = "api_error"
        /\ "msg" \in DOMAIN resp => printed[i].msg = resp["msg"]

\* C7 as stated: for every response whose code is not "0" the remote msg is
\* surfaced and no balance entry is rendered; entries are rendered only for a
\* response with no error field and code "0".
C7_NonZeroCodeSurfacesMsg ==
    pc = "formatted" =>
        /\ ("code" \in DOMAIN response[1] /\ response[1]["code"] # <<"0">>)
               => (SurfacesMsg(response[1]) /\ NoEntryPrinted)
        /\ ~NoEntryPrinted =>
               /\ "error" \notin DOMAIN response[1]
               /\ "code" \in DOMAIN response[1] /\ response[1]["code"] = <<"0">>

\* C7 amended: for every response with no error field whose code is not "0"
\* the remote msg is surfaced and no balance entry is rendered; entries are
\* rendered only for a response with no error field and code "0".
C7_ApiErrorSurfacesMsg ==
    pc = "formatted" =>
        /\ (/\ "error" \notin DOMAIN response[1]
            /\ "code" \in DOMAIN response[1] /\ response[1]["code"] # <<"0">>)
               => (SurfacesMsg(response[1]) /\ NoEntryPrinted)
        /\ ~NoEntryPrinted =>
               /\ "error" \notin DOMAIN response[1]
               /\ "code" \in DOMAIN response[1] /\ response[1]["code"] = <<"0">>

\* code "1", msg "Invalid Sign", and data that would otherwise be displayed.
C7_Witness ==
    /\ pc = "formatted"
    /\ "error" \notin DOMAIN response[1]
    /\ "code" \in DOMAIN response[1] /\ response[1]["code"] = <<"1">>
    /\ "msg" \in DOMAIN response[1] /\ response[1]["msg"] = <<"Invalid Sign">>
    /\ "data" \in DOMAIN response[1] /\ response[1]["data"] # <<>>
    /\ Len(printed) = 1 /\ printed[1].line = "api_error"
    /\ printed[1].msg = <<"Invalid Sign">>
=============================================================================
